---- MODULE Spec2Model ----
(***************************************************************************)
(* Model of two units of the repository:                                   *)
(*   - resources/example-skills/pdf/scripts/convert_pdf_to_images.py       *)
(*     (the __main__ block and convert)                                    *)
(*   - backend/app/agent/factory/developer.py (developer_agent)            *)
(***************************************************************************)
EXTENDS Integers, Sequences, FiniteSets, TLC

(***************************************************************************)
(* Python floats (IEEE-754 binary64, round to nearest, ties to even).      *)
(* A positive float is [man, exp]: man is the 53-bit significand, most     *)
(* significant bit first (man[1] = 1), and the value is                    *)
(* 1.man[2]man[3]... * 2^exp.                                              *)
(***************************************************************************)
MantBits == 53
\* the significand is handled in limbs of LimbBits bits below its leading bit
LimbBits == 13
Limbs == 4

RECURSIVE Pow2(_)
Pow2(n) == IF n = 0 THEN 1 ELSE 2 * Pow2(n - 1)

RECURSIVE BitLen(_)
\* number of binary digits of n >= 0
BitLen(n) == IF n = 0 THEN 0 ELSE 1 + BitLen(n \div 2)

RECURSIVE Pow2Mod(_, _)
\* 2^k modulo d, by repeated squaring
Pow2Mod(k, d) ==
    IF k = 0 THEN 1 % d
    ELSE LET h == Pow2Mod(k \div 2, d)
             sq == (h * h) % d
         IN  IF k % 2 = 0 THEN sq ELSE (2 * sq) % d

\* bit k (counted from the least significant, 0-based) of n
BitOf(n, k) == (n \div Pow2(k)) % 2

\* value of bits from..to of a bit sequence, read as a binary numeral
BitsToInt(bits, from, to) ==
    LET RECURSIVE V(_)
        V(k) == IF k < from THEN 0 ELSE 2 * V(k - 1) + bits[k]
    IN  V(to)

\* carry-propagating increment of a bit sequence; <<bits, carryOut>>
IncBits(bits) ==
    LET n == Len(bits)
        \* position of the last 0 bit (0 when every bit is 1)
        z == IF \E k \in 1..n : bits[k] = 0
             THEN CHOOSE k \in 1..n : bits[k] = 0 /\ \A j \in (k+1)..n : bits[j] = 1
             ELSE 0
    IN  IF z = 0
        THEN <<[k \in 1..n |-> IF k = 1 THEN 1 ELSE 0], 1>>
        ELSE <<[k \in 1..n |-> IF k < z THEN bits[k] ELSE IF k = z THEN 1 ELSE 0], 0>>

\* round-to-nearest-even of a significand given the discarded part: above is
\* TRUE when the discarded part is more than one half of the last place, tie
\* when it is exactly one half
RoundNearestEven(bits, exp, above, tie) ==
    IF above \/ (tie /\ bits[Len(bits)] = 1)
    THEN LET r == IncBits(bits) IN [man |-> r[1], exp |-> exp + r[2]]
    ELSE [man |-> bits, exp |-> exp]

RECURSIVE ShiftUp(_, _)
\* least k with a * 2^k >= b
ShiftUp(a, b) == IF a >= b THEN 0 ELSE 1 + ShiftUp(2 * a, b)

RECURSIVE ShiftDown(_, _)
\* greatest k with b * 2^k <= a   (a >= b)
ShiftDown(a, b) == IF 2 * b > a THEN 0 ELSE 1 + ShiftDown(a, 2 * b)

\* Python's int / int: the correctly rounded quotient of two positive ints.
\* With num/den in [1, 2), bit k of the quotient (k >= 2) is the integer part
\* of 2 * ((num - den) * 2^(k-2) mod den) / den.
FloatDiv(a, b) ==
    LET num  == IF a >= b THEN a ELSE a * Pow2(ShiftUp(a, b))
        den  == IF a >= b THEN b * Pow2(ShiftDown(a, b)) ELSE b
        exp  == IF a >= b THEN ShiftDown(a, b) ELSE 0 - ShiftUp(a, b)
        rem0 == num - den
        Rem(k) == (rem0 * Pow2Mod(k, den)) % den
        bits == [k \in 1..MantBits |->
                   IF k = 1 THEN 1
                   ELSE IF 2 * Rem(k - 2) >= den THEN 1 ELSE 0]
        last == Rem(MantBits - 1)
    IN  RoundNearestEven(bits, exp, 2 * last > den, 2 * last = den)

\* Python's int * float for a positive int n < 2^53: n converts exactly, and
\* the exact product n * significand is rounded to 53 bits.  The product is
\* formed limb by limb from the least significant limb, with carries.
FloatMul(n, f) ==
    LET Limb(j) == \* limb j = 0 is the least significant
            BitsToInt(f.man, MantBits - (j + 1) * LimbBits + 1, MantBits - j * LimbBits)
        p0   == n * Limb(0)
        p1   == n * Limb(1) + p0 \div Pow2(LimbBits)
        p2   == n * Limb(2) + p1 \div Pow2(LimbBits)
        p3   == n * Limb(3) + p2 \div Pow2(LimbBits)
        top  == n * f.man[1] + p3 \div Pow2(LimbBits)
        low  == <<p3 % Pow2(LimbBits), p2 % Pow2(LimbBits),
                  p1 % Pow2(LimbBits), p0 % Pow2(LimbBits)>>
        tlen == BitLen(top)
        plen == tlen + Limbs * LimbBits
        prod == [k \in 1..plen |->
                   IF k <= tlen THEN BitOf(top, tlen - k)
                   ELSE BitOf(low[(k - tlen - 1) \div LimbBits + 1],
                              LimbBits - 1 - ((k - tlen - 1) % LimbBits))]
        extra == plen - MantBits
        kept  == [k \in 1..MantBits |-> prod[k]]
        guard == IF extra > 0 THEN prod[MantBits + 1] ELSE 0
        rest  == \E k \in (MantBits + 2)..plen : prod[k] = 1
    IN  RoundNearestEven(kept, f.exp + extra, guard = 1 /\ rest, guard = 1 /\ ~rest)

\* a < b on floats
FloatLess(a, b) ==
    \/ a.exp < b.exp
    \/ /\ a.exp = b.exp
       /\ \E k \in 1..MantBits :
            /\ a.man[k] < b.man[k]
            /\ \A j \in 1..(k - 1) : a.man[j] = b.man[j]

\* Python's min(a, b): the first argument unless the second is smaller
FloatMin(a, b) == IF FloatLess(b, a) THEN b ELSE a

\* Python's int(f): truncation toward zero
FloatToInt(f) == IF f.exp < 0 THEN 0 ELSE BitsToInt(f.man, 1, f.exp + 1)

(***************************************************************************)
(* Bounds of the model                                                     *)
(***************************************************************************)
MaxArgs == 3          \* command-line arguments after the script name
MaxPages == 3         \* pages of a multi-page PDF
MaxSmallSide == 2     \* page sides (pixels) of the multi-page PDFs
MaxSide == 49         \* page sides (pixels) of the one-page PDFs
MaxMaxDim == 3        \* max_dim passed to convert by a direct caller
MaxTools == 2         \* tools exposed by one toolkit

\* line 23: def convert(pdf_path, output_dir, max_dim=1000)
DefaultMaxDim == 1000

VARIABLES
    pc,           \* position in the script
    caller,       \* "main" (the __main__ block) or "direct" (convert is imported)
    argv,         \* sys.argv, the script name first
    pdf,          \* what the input file renders to: the page sizes, in page order
    pdf_path, output_dir, max_dim,    \* convert's parameters
    images,       \* line 24: the rendered pages
    rendered,     \* convert_from_path has returned
    i,            \* line 26: enumerate index
    image,        \* line 26/32: the image being processed, [size, resized]
    new_size,     \* lines 30-31: <<new_width, new_height>>
    files,        \* files written into output_dir: page number N -> image saved as page_N.png
    stdout,       \* lines printed
    error,        \* the exception that left convert, "none" if none
    exitStatus,   \* process exit status, -1 while running
    convertCalls  \* number of calls of convert

scriptVars == <<pc, caller, argv, pdf, pdf_path, output_dir, max_dim, images,
                rendered, i,
                image, new_size, files, stdout, error, exitStatus, convertCalls>>

VARIABLES
    apc,          \* position in developer_agent
    exposed,      \* number of tools each toolkit exposes (for search: the tools
                  \* the configuration makes available, 0 when not enabled)
    toolkit,      \* the toolkit objects constructed so far: name -> its tools
    screenshot_toolkit_for_agent_registration,    \* line 65
    search_tools, \* lines 87-93
    tools,        \* lines 95-105
    system_message,   \* lines 106-111
    agentCalls,   \* the calls of agent_model, with their arguments
    agent,        \* the value developer_agent returned
    aerror,       \* the exception that left developer_agent
    atrace        \* the steps executed, in order

agentVars == <<apc, exposed, toolkit, screenshot_toolkit_for_agent_registration,
               search_tools, tools, system_message, agentCalls, agent, aerror,
               atrace>>

vars == <<scriptVars, agentVars>>

NoValue == "none"
NoFiles == [n \in {} |-> NoValue]
NoError == [at |-> NoValue, done |-> 0]

Max(a, b) == IF a >= b THEN a ELSE b
Min(a, b) == IF a <= b THEN a ELSE b

\* sequences over S of length at most n
SeqsUpTo(S, n) == UNION {[1..k -> S] : k \in 0..n}

(***************************************************************************)
(* convert: the per-page size computation (lines 27-32)                    *)
(***************************************************************************)
\* variant of line 28: ">=" in place of ">"
NeedsResizeAtBound(width, height, m) == width >= m \/ height >= m

\* variant of line 28: "and" in place of "or"
NeedsResizeBoth(width, height, m) == width > m /\ height > m

\* line 28
NeedsResize(width, height, m) == width > m \/ height > m

\* variant of line 29: max in place of min
ScaleFactorMax(width, height, m) ==
    LET a == FloatDiv(m, width)
        b == FloatDiv(m, height)
    IN  IF FloatLess(a, b) THEN b ELSE a

\* line 29
ScaleFactor(width, height, m) ==
    FloatMin(FloatDiv(m, width), FloatDiv(m, height))

\* lines 30-31
NewSize(width, height, m) ==
    LET scale_factor == ScaleFactor(width, height, m)
    IN  <<FloatToInt(FloatMul(width, scale_factor)),
          FloatToInt(FloatMul(height, scale_factor))>>

\* variant of line 34: page_{i} in place of page_{i+1}
ImagePathZeroBased(k) == k

\* line 34: the N of page_<N>.png for enumerate index k
ImagePath(k) == k + 1

(***************************************************************************)
(* convert (lines 23-38)                                                   *)
(***************************************************************************)
\* line 24: convert_from_path returns the images of all pages
RenderOk ==
    /\ pc = "render"
    /\ images' = pdf
    /\ rendered' = TRUE
    /\ i' = 0
    /\ pc' = "loop"
    /\ UNCHANGED agentVars
    /\ UNCHANGED <<caller, argv, pdf, pdf_path, output_dir, max_dim, image,
                   new_size, files, stdout, error, exitStatus, convertCalls>>

\* line 24: convert_from_path raises (missing or malformed file)
RenderFail ==
    /\ pc = "render"
    /\ error' = "render"
    /\ pc' = "failed"
    /\ UNCHANGED agentVars
    /\ UNCHANGED <<caller, rendered, argv, pdf, pdf_path, output_dir, max_dim, images, i,
                   image, new_size, files, stdout, exitStatus, convertCalls>>

\* lines 26-31: the next image, and its new size when it is too large
LoopNext ==
    /\ pc = "loop"
    /\ i < Len(images)
    /\ LET width  == images[i + 1][1]
           height == images[i + 1][2]
       IN  /\ image' = [size |-> <<width, height>>, resized |-> FALSE]
           /\ IF NeedsResize(width, height, max_dim)
              THEN /\ new_size' = NewSize(width, height, max_dim)
                   /\ pc' = "resize"
              ELSE /\ new_size' = NoValue
                   /\ pc' = "save"
    /\ UNCHANGED agentVars
    /\ UNCHANGED <<caller, rendered, argv, pdf, pdf_path, output_dir, max_dim, images, i,
                   files, stdout, error, exitStatus, convertCalls>>

\* line 32: image.resize returns the resized image
ResizeOk ==
    /\ pc = "resize"
    /\ image' = [size |-> new_size, resized |-> TRUE]
    /\ pc' = "save"
    /\ UNCHANGED agentVars
    /\ UNCHANGED <<caller, rendered, argv, pdf, pdf_path, output_dir, max_dim, images, i,
                   new_size, files, stdout, error, exitStatus, convertCalls>>

\* line 32: image.resize raises; the imaging library rejects a target size
\* with a zero side ("height and width must be > 0") in the releases that
\* check it, so for such a size both outcomes are kept
ResizeRaise ==
    /\ pc = "resize"
    /\ new_size[1] = 0 \/ new_size[2] = 0
    /\ error' = "resize"
    /\ pc' = "failed"
    /\ UNCHANGED agentVars
    /\ UNCHANGED <<caller, rendered, argv, pdf, pdf_path, output_dir, max_dim, images, i,
                   image, new_size, files, stdout, exitStatus, convertCalls>>

\* lines 34-36: image.save writes page_<i+1>.png, then the line is printed
SaveOk ==
    /\ pc = "save"
    /\ LET n == ImagePath(i)
       IN  /\ files' = [k \in DOMAIN files \cup {n} |->
                          IF k = n THEN [size |-> image.size,
                                         resized |-> image.resized,
                                         page |-> i + 1]
                          ELSE files[k]]
           /\ stdout' = Append(stdout, <<"saved", i + 1, n, image.size>>)
    /\ i' = i + 1
    /\ pc' = "loop"
    /\ UNCHANGED agentVars
    /\ UNCHANGED <<caller, rendered, argv, pdf, pdf_path, output_dir, max_dim, images,
                   image, new_size, error, exitStatus, convertCalls>>

\* line 35: image.save raises (missing output directory, no permission)
SaveFail ==
    /\ pc = "save"
    /\ error' = "save"
    /\ pc' = "failed"
    /\ UNCHANGED agentVars
    /\ UNCHANGED <<caller, rendered, argv, pdf, pdf_path, output_dir, max_dim, images, i,
                   image, new_size, files, stdout, exitStatus, convertCalls>>

\* line 38: after the loop
PrintTotal ==
    /\ pc = "loop"
    /\ i = Len(images)
    /\ stdout' = Append(stdout, <<"total", Len(images)>>)
    /\ pc' = "done"
    /\ UNCHANGED agentVars
    /\ UNCHANGED <<caller, rendered, argv, pdf, pdf_path, output_dir, max_dim, images, i,
                   image, new_size, files, error, exitStatus, convertCalls>>

NextConvert ==
    \/ RenderOk \/ RenderFail \/ LoopNext \/ ResizeOk \/ ResizeRaise
    \/ SaveOk \/ SaveFail \/ PrintTotal

(***************************************************************************)
(* the __main__ block (lines 41-47)                                        *)
(***************************************************************************)
\* variant of line 42: len(sys.argv) < 3 in place of != 3
ArgCountAtLeast(args) == Len(args) >= 3

\* line 42: the negation of len(sys.argv) != 3
ArgCountOk(args) == Len(args) = 3

\* lines 42-44
MainUsage ==
    /\ pc = "main"
    /\ ~ArgCountOk(argv)
    /\ stdout' = Append(stdout, <<"usage">>)
    /\ exitStatus' = 1
    /\ pc' = "exit"
    /\ UNCHANGED agentVars
    /\ UNCHANGED <<caller, rendered, argv, pdf, pdf_path, output_dir, max_dim, images, i,
                   image, new_size, files, error, convertCalls>>

\* lines 45-47
MainCall ==
    /\ pc = "main"
    /\ ArgCountOk(argv)
    /\ pdf_path' = argv[2]
    /\ output_dir' = argv[3]
    /\ max_dim' = DefaultMaxDim
    /\ convertCalls' = convertCalls + 1
    /\ pc' = "render"
    /\ UNCHANGED agentVars
    /\ UNCHANGED <<caller, rendered, argv, pdf, images, i, image, new_size, files,
                   stdout, error, exitStatus>>

\* the end of the script: convert returned (status 0) or an exception left
\* it unhandled (traceback, status 1)
MainExit ==
    /\ caller = "main"
    /\ pc \in {"done", "failed"}
    /\ exitStatus' = IF pc = "done" THEN 0 ELSE 1
    /\ pc' = "exit"
    /\ UNCHANGED agentVars
    /\ UNCHANGED <<caller, rendered, argv, pdf, pdf_path, output_dir, max_dim, images, i,
                   image, new_size, files, stdout, error, convertCalls>>

NextMain == MainUsage \/ MainCall \/ MainExit \/ NextConvert

(***************************************************************************)
(* developer_agent (backend/app/agent/factory/developer.py, lines 38-133)  *)
(***************************************************************************)
\* the toolkits wrapped by message_integration.register_toolkits
WrappedKits == {"note", "web_deploy", "screenshot", "terminal", "skill"}
Kits == {"human", "search"} \cup WrappedKits

\* get_tools() / get_can_use_tools() of a toolkit exposing n tools
ExposedTools(kit, n) == [k \in 1..n |-> [kit |-> kit, name |-> k, relay |-> FALSE]]

\* lines 54, 56, 66, 77, 85, 91: register_toolkits / register_functions
\* return the same tools, each one relaying its messages to the human channel
RegisterTools(ts) == [k \in 1..Len(ts) |-> [ts[k] EXCEPT !.relay = TRUE]]

\* variant of lines 95-105: the terminal toolkit's tools left out
ToolListNoTerminal(human, tk, search) ==
    human \o tk["note"] \o tk["web_deploy"]
          \o tk["screenshot"] \o tk["skill"] \o search

\* lines 95-105
ToolList(human, tk, search) ==
    human \o tk["note"] \o tk["web_deploy"] \o tk["terminal"]
          \o tk["screenshot"] \o tk["skill"] \o search

\* lines 121-129
ToolNames == <<"human", "terminal", "note", "web_deploy", "screenshot", "skill",
               "search">>

\* variant: the exception is swallowed and the next step runs
AfterRaiseContinue(next) == next

\* no try/except in developer_agent: an exception raised at any step leaves
\* the function, whatever step would have come next
AfterRaise(next) == "failed"

\* a toolkit constructor followed by its register_toolkits call
ConstructAndWrap(kit, from, to) ==
    /\ apc = from
    /\ toolkit' = [toolkit EXCEPT ![kit] = RegisterTools(ExposedTools(kit, exposed[kit]))]
    /\ atrace' = atrace \o << <<"construct", kit>>, <<"wrap", kit>> >>
    /\ apc' = to
    /\ UNCHANGED scriptVars

\* lines 39-48: working directory, log line, HumanToolkit and the message integration
CreateMessageIntegration ==
    /\ apc = "start"
    /\ atrace' = Append(atrace, <<"construct", "human">>)
    /\ apc' = "note"
    /\ UNCHANGED scriptVars
    /\ UNCHANGED <<exposed, toolkit, screenshot_toolkit_for_agent_registration,
                   search_tools, tools, system_message, agentCalls, agent, aerror>>

\* lines 49-54
CreateNoteToolkit ==
    /\ ConstructAndWrap("note", "note", "web_deploy")
    /\ UNCHANGED <<exposed, screenshot_toolkit_for_agent_registration,
                   search_tools, tools, system_message, agentCalls, agent, aerror>>

\* lines 55-58
CreateWebDeployToolkit ==
    /\ ConstructAndWrap("web_deploy", "web_deploy", "screenshot")
    /\ UNCHANGED <<exposed, screenshot_toolkit_for_agent_registration,
                   search_tools, tools, system_message, agentCalls, agent, aerror>>

\* lines 59-68
CreateScreenshotToolkit ==
    /\ ConstructAndWrap("screenshot", "screenshot", "terminal")
    /\ screenshot_toolkit_for_agent_registration' = "screenshot"
    /\ UNCHANGED <<exposed, search_tools, tools, system_message, agentCalls,
                   agent, aerror>>

\* lines 70-77
CreateTerminalToolkit ==
    /\ ConstructAndWrap("terminal", "terminal", "skill")
    /\ UNCHANGED <<exposed, screenshot_toolkit_for_agent_registration,
                   search_tools, tools, system_message, agentCalls, agent, aerror>>

\* lines 79-85
CreateSkillToolkit ==
    /\ ConstructAndWrap("skill", "skill", "search")
    /\ UNCHANGED <<exposed, screenshot_toolkit_for_agent_registration,
                   search_tools, tools, system_message, agentCalls, agent, aerror>>

\* lines 87-93
FetchSearchTools ==
    /\ apc = "search"
    /\ LET fetched == ExposedTools("search", exposed["search"])
       IN  search_tools' = IF fetched # << >> THEN RegisterTools(fetched) ELSE << >>
    /\ atrace' = Append(atrace, <<"fetch", "search">>)
    /\ apc' = "tools"
    /\ UNCHANGED scriptVars
    /\ UNCHANGED <<exposed, toolkit, screenshot_toolkit_for_agent_registration,
                   tools, system_message, agentCalls, agent, aerror>>

\* lines 95-105
BuildTools ==
    /\ apc = "tools"
    /\ tools' = ToolList(ExposedTools("human", exposed["human"]), toolkit, search_tools)
    /\ atrace' = Append(atrace, <<"collect", "tools">>)
    /\ apc' = "prompt"
    /\ UNCHANGED scriptVars
    /\ UNCHANGED <<exposed, toolkit, screenshot_toolkit_for_agent_registration,
                   search_tools, system_message, agentCalls, agent, aerror>>

\* lines 106-111
RenderPrompt ==
    /\ apc = "prompt"
    /\ system_message' = <<"platform_system", "platform_machine",
                           "working_directory", "now_str">>
    /\ atrace' = Append(atrace, <<"render", "prompt">>)
    /\ apc' = "agent"
    /\ UNCHANGED scriptVars
    /\ UNCHANGED <<exposed, toolkit, screenshot_toolkit_for_agent_registration,
                   search_tools, tools, agentCalls, agent, aerror>>

\* lines 113-133
CallAgentModel ==
    /\ apc = "agent"
    /\ agentCalls' = Append(agentCalls,
          [agent_name |-> "developer_agent",
           role_name |-> "Developer Agent",
           content |-> system_message,
           tools |-> tools,
           tool_names |-> ToolNames,
           toolkits_to_register_agent |-> <<screenshot_toolkit_for_agent_registration>>])
    /\ agent' = "Developer Agent"
    /\ atrace' = Append(atrace, <<"call", "agent_model">>)
    /\ apc' = "returned"
    /\ UNCHANGED scriptVars
    /\ UNCHANGED <<exposed, toolkit, screenshot_toolkit_for_agent_registration,
                   search_tools, tools, system_message, aerror>>

\* the next position after each step that calls a toolkit constructor or
\* class method (lines 45, 49, 55, 59, 70, 79, 87)
StepAfter == [start |-> "note", note |-> "web_deploy", web_deploy |-> "screenshot",
              screenshot |-> "terminal", terminal |-> "skill", skill |-> "search",
              search |-> "tools"]

\* a toolkit constructor (or the search lookup) raises
ConstructorFails ==
    /\ apc \in DOMAIN StepAfter
    /\ aerror' = [at |-> apc, done |-> Len(atrace)]
    /\ apc' = AfterRaise(StepAfter[apc])
    /\ UNCHANGED scriptVars
    /\ UNCHANGED <<exposed, toolkit, screenshot_toolkit_for_agent_registration,
                   search_tools, tools, system_message, agentCalls, agent, atrace>>

NextAgent ==
    \/ CreateMessageIntegration \/ CreateNoteToolkit \/ CreateWebDeployToolkit
    \/ CreateScreenshotToolkit \/ CreateTerminalToolkit \/ CreateSkillToolkit
    \/ FetchSearchTools \/ BuildTools \/ RenderPrompt \/ CallAgentModel
    \/ ConstructorFails

(***************************************************************************)
(* Initial states                                                          *)
(***************************************************************************)
\* developer_agent not running
AgentIdle ==
    /\ apc = "idle"
    /\ exposed = NoValue
    /\ toolkit = NoValue
    /\ screenshot_toolkit_for_agent_registration = NoValue
    /\ search_tools = NoValue
    /\ tools = NoValue
    /\ system_message = NoValue
    /\ agentCalls = << >>
    /\ agent = NoValue
    /\ aerror = NoError
    /\ atrace = << >>

\* the script not running
ScriptIdle ==
    /\ pc = "idle"
    /\ caller = NoValue
    /\ argv = << >>
    /\ pdf = NoValue
    /\ pdf_path = NoValue
    /\ output_dir = NoValue
    /\ max_dim = NoValue
    /\ images = << >>
    /\ rendered = FALSE
    /\ i = 0
    /\ image = NoValue
    /\ new_size = NoValue
    /\ files = NoFiles
    /\ stdout = << >>
    /\ error = "none"
    /\ exitStatus = -1
    /\ convertCalls = 0

SmallSizes == (1..MaxSmallSide) \X (1..MaxSmallSide)
WideSizes == (1..MaxSide) \X (1..MaxSide)

\* the PDFs given to a direct call of convert
Pdfs == SeqsUpTo(SmallSizes, MaxPages) \cup {<<p>> : p \in WideSizes}

\* a direct call convert(pdf_path, output_dir, max_dim)
InitConvert ==
    /\ pc = "render"
    /\ caller = "direct"
    /\ argv = << >>
    /\ pdf \in Pdfs
    /\ pdf_path = "in.pdf"
    /\ output_dir = "out"
    /\ max_dim \in 1..MaxMaxDim
    /\ images = << >>
    /\ rendered = FALSE
    /\ i = 0
    /\ image = NoValue
    /\ new_size = NoValue
    /\ files = NoFiles
    /\ stdout = << >>
    /\ error = "none"
    /\ exitStatus = -1
    /\ convertCalls = 1
    /\ AgentIdle

\* pages at 200 DPI around the default bound: Letter (1700 x 2200), and
\* sides at, just above and far above 1000
MainSizes == {<<1700, 2200>>, <<1000, 1000>>, <<1001, 1000>>, <<1, 1001>>}
Paths == {"in.pdf", "out"}

\* the script run from the command line
InitMain ==
    /\ pc = "main"
    /\ caller = "main"
    /\ \E args \in SeqsUpTo(Paths, MaxArgs) :
           argv = <<"convert_pdf_to_images.py">> \o args
    /\ pdf \in SeqsUpTo(MainSizes, 1)
    /\ pdf_path = NoValue
    /\ output_dir = NoValue
    /\ max_dim = NoValue
    /\ images = << >>
    /\ rendered = FALSE
    /\ i = 0
    /\ image = NoValue
    /\ new_size = NoValue
    /\ files = NoFiles
    /\ stdout = << >>
    /\ error = "none"
    /\ exitStatus = -1
    /\ convertCalls = 0
    /\ AgentIdle

\* one call of developer_agent(options); every toolkit exposes at least one
\* tool, the search lookup returns none when search is not configured
InitAgent ==
    /\ ScriptIdle
    /\ apc = "start"
    /\ exposed \in {e \in [Kits -> 0..MaxTools] :
                      \A k \in Kits \ {"search"} : e[k] >= 1}
    /\ toolkit = [k \in WrappedKits |-> NoValue]
    /\ screenshot_toolkit_for_agent_registration = NoValue
    /\ search_tools = NoValue
    /\ tools = NoValue
    /\ system_message = NoValue
    /\ agentCalls = << >>
    /\ agent = NoValue
    /\ aerror = NoError
    /\ atrace = << >>


SpecConvert == InitConvert /\ [][NextConvert]_vars
SpecMain == InitMain /\ [][NextMain]_vars
SpecAgent == InitAgent /\ [][NextAgent]_vars

(***************************************************************************)
(* Properties                                                              *)
(***************************************************************************)
\* the rendered page a saved file was made from
PageOf(n) == images[files[n].page]
TooLarge(p) == p[1] > max_dim \/ p[2] > max_dim
IsPrefix(a, b) == Len(a) <= Len(b) /\ \A k \in 1..Len(a) : a[k] = b[k]

\* C1: when rendering gave K pages and no save failed, convert ends with
\* exactly the files page_1.png .. page_K.png, file N holding page N
C1_ExactlyKFiles ==
    (pc \in {"done", "failed"} /\ rendered /\ error # "save")
        => /\ DOMAIN files = 1..Len(images)
           /\ \A n \in DOMAIN files : files[n].page = n

\* C2: a page with a side above max_dim is saved with its larger side equal
\* to max_dim or max_dim - 1 and its smaller side within one pixel of
\* smaller * max_dim / larger
C2_ResizedToBound ==
    \A n \in DOMAIN files :
        LET L  == Max(PageOf(n)[1], PageOf(n)[2])
            S  == Min(PageOf(n)[1], PageOf(n)[2])
            oL == Max(files[n].size[1], files[n].size[2])
            oS == Min(files[n].size[1], files[n].size[2])
        IN  TooLarge(PageOf(n))
              => /\ oL \in {max_dim, max_dim - 1}
                 /\ oS * L - S * max_dim \in (0 - L)..L

\* a resized page whose larger side came out as max_dim - 1 has been saved,
\* next to one whose larger side is max_dim
C2_Witness ==
    /\ \E n \in DOMAIN files :
          /\ TooLarge(PageOf(n)) /\ files[n].resized
          /\ Max(files[n].size[1], files[n].size[2]) = max_dim - 1
          /\ max_dim >= 2

\* C3: a page with both sides <= max_dim is saved unresized, with exactly
\* its rendered width and height
C3_SmallPageUntouched ==
    \A n \in DOMAIN files :
        ~TooLarge(PageOf(n))
          => /\ files[n].size = PageOf(n)
             /\ ~files[n].resized

\* a page with a side equal to max_dim has been saved
C3_Witness ==
    \E n \in DOMAIN files :
        /\ ~TooLarge(PageOf(n))
        /\ PageOf(n)[1] = max_dim
        /\ files[n].size = PageOf(n)

\* C4: with an argument count other than 2 the script prints the usage,
\* exits with status 1 and never calls convert (nothing rendered, nothing
\* written); with 2 arguments it calls convert once with them and prints no
\* usage
C4_ArgumentCheck ==
    /\ (Len(argv) # 3 /\ pc # "main")
         => /\ pc = "exit"
            /\ stdout = << <<"usage">> >>
            /\ exitStatus = 1
            /\ convertCalls = 0
            /\ ~rendered
            /\ files = NoFiles
    /\ (Len(argv) = 3 /\ pc # "main")
         => /\ convertCalls = 1
            /\ pdf_path = argv[2]
            /\ output_dir = argv[3]
            /\ \A k \in 1..Len(stdout) : stdout[k] # <<"usage">>

\* the script has exited after a run with three arguments
C4_Witness == pc = "exit" /\ Len(argv) = 4 /\ exitStatus = 1

\* the tools of toolkit kit in a tool list, as (kit, name) pairs with their
\* number of occurrences
Occurrences(ts, kit, name) ==
    Cardinality({p \in 1..Len(ts) : ts[p].kit = kit /\ ts[p].name = name})

\* C5: the tool list passed to agent_model is the exposed tools of human,
\* note, web_deploy, terminal, screenshot, skill and then search, in that
\* order, every exposed tool exactly once
C5_ToolListIsConcatenation ==
    \A c \in 1..Len(agentCalls) :
        LET ts    == agentCalls[c].tools
            order == <<"human", "note", "web_deploy", "terminal", "screenshot",
                       "skill", "search">>
        IN  /\ \A k \in Kits : \A n \in 1..MaxTools + 1 :
                  Occurrences(ts, k, n) = IF n <= exposed[k] THEN 1 ELSE 0
            /\ \A p, q \in 1..Len(ts) :
                  p < q =>
                    LET kp == CHOOSE x \in 1..7 : order[x] = ts[p].kit
                        kq == CHOOSE x \in 1..7 : order[x] = ts[q].kit
                    IN  kp < kq \/ (kp = kq /\ ts[p].name < ts[q].name)
            /\ \A p \in 1..Len(ts) : ts[p].relay = (ts[p].kit # "human")

\* agent_model has been called with search tools and a two-tool toolkit
C5_Witness ==
    /\ Len(agentCalls) = 1
    /\ exposed["search"] >= 1
    /\ exposed["terminal"] = 2
    /\ Len(agentCalls[1].tools) >= 8

\* C6: a toolkit is named in tool_names exactly when its tools are in the
\* tool list
C6_NamesIffTools ==
    \A c \in 1..Len(agentCalls) :
        \A k \in Kits :
            (\E p \in 1..Len(agentCalls[c].tool_names) : agentCalls[c].tool_names[p] = k)
              <=> (\E p \in 1..Len(agentCalls[c].tools) : agentCalls[c].tools[p].kit = k)

\* C7: every saved image is at most as wide and as high as its rendered
\* page, and at most max_dim in both directions
C7_NeverLarger ==
    \A n \in DOMAIN files :
        /\ files[n].size[1] <= PageOf(n)[1]
        /\ files[n].size[2] <= PageOf(n)[2]
        /\ files[n].size[1] <= max_dim
        /\ files[n].size[2] <= max_dim

\* a page wider or higher than max_dim has been saved smaller
C7_Witness ==
    \E n \in DOMAIN files :
        /\ PageOf(n)[2] > max_dim
        /\ PageOf(n)[1] <= max_dim
        /\ files[n].size[2] < PageOf(n)[2]
        /\ files[n].size[2] >= 1

\* the steps of developer_agent in the order of the claim
StepOrder ==
    << <<"construct", "human">>,
       <<"construct", "note">>, <<"wrap", "note">>,
       <<"construct", "web_deploy">>, <<"wrap", "web_deploy">>,
       <<"construct", "screenshot">>, <<"wrap", "screenshot">>,
       <<"construct", "terminal">>, <<"wrap", "terminal">>,
       <<"construct", "skill">>, <<"wrap", "skill">>,
       <<"fetch", "search">>, <<"collect", "tools">>, <<"render", "prompt">>,
       <<"call", "agent_model">> >>

\* C8: the steps run in sequence, agent_model is called at most once and
\* only after every earlier step; after a constructor failure no step runs,
\* agent_model is not called and no agent is returned
C8_SequentialNoRetry ==
    /\ IsPrefix(atrace, StepOrder)
    /\ Len(agentCalls) <= 1
    /\ agentCalls # << >> => (atrace = StepOrder /\ aerror = NoError)
    /\ agent # NoValue => Len(agentCalls) = 1
    /\ aerror # NoError
         => /\ apc = "failed"
            /\ Len(atrace) = aerror.done
            /\ agentCalls = << >>
            /\ agent = NoValue

\* the terminal toolkit's constructor has failed after three toolkits were built
C8_Witness ==
    /\ aerror # NoError
    /\ aerror.at = "terminal"
    /\ Len(atrace) = 7

\* C9: no file before rendering has completed, then files page_1 .. page_j
\* in increasing order; nothing written when rendering fails; when a save
\* fails the earlier files stay, no later page is saved and no total line
\* is printed
C9_SavesInOrderAfterRender ==
    /\ ~rendered => files = NoFiles
    /\ error = "render" => files = NoFiles
    /\ rendered =>
          /\ i <= Len(images)
          /\ DOMAIN files = 1..i
          /\ \A n \in DOMAIN files : files[n].page = n
    /\ error = "save" =>
          /\ pc \in {"failed", "exit"}
          /\ i < Len(images)
          /\ \A k \in 1..Len(stdout) : stdout[k][1] # "total"

\* the save of the second of three pages has failed
C9_Witness ==
    /\ error = "save"
    /\ i = 1
    /\ Len(images) = 3
    /\ DOMAIN files = {1}

\* C10: a resized page whose larger side is at most max_dim times its
\* smaller side gets a new size with both sides >= 1
C10_NoZeroSideUnlessThin ==
    pc = "resize" =>
        LET L == Max(image.size[1], image.size[2])
            S == Min(image.size[1], image.size[2])
        IN  L <= max_dim * S => (new_size[1] >= 1 /\ new_size[2] >= 1)
====
